---- MODULE Spec2Model ----
(***************************************************************************)
(* A model of the WMML launcher (src/src/main.rs): the platform rule       *)
(* evaluator, the classpath resolver, the game-argument synthesizer, the   *)
(* JVM command assembler and the launch sequence.                          *)
(*                                                                         *)
(* Text is a sequence of letters.  A letter is one of the characters the   *)
(* code looks at ("$", "{", "}", ":", ".", "/", "\\", ";", " ", "-", the    *)
(* digits) or a word: a run of other characters that the code only ever    *)
(* copies or compares as a whole.  An Option<T> is <<>> (None) or <<v>>     *)
(* (Some(v)).                                                              *)
(***************************************************************************)
EXTENDS Integers, Sequences, FiniteSets, TLC

VARIABLES
    pc,             \* the position of the modelled call
    target_arch,    \* the build's cfg!(target_arch)
    mc_path,        \* launch_minecraft's mc_path argument, as the caller gives it
    version_name,   \* the version_name argument
    player_name,    \* the player_name argument
    options,        \* the LaunchOptions
    manifest_file,  \* what fs::read_to_string finds at the manifest's path
    files,          \* the paths for which Path::exists is true
    spawn_ok,       \* whether the operating system starts the process
    root,           \* the normalized mc_path (a PathBuf)
    version_json,   \* the decoded VersionJson
    lib,            \* the Library a single call is about
    applied,        \* one pass of the rule loop: <<rule, flag before, flag after>>
    rules_result,   \* Option<bool>: what check_library_rules returned
    lib_path,       \* Option<Option<PathBuf>>: what get_library_path returned
    libraries,      \* Option<io::Result<String>>: what build_libraries_path returned
    args,           \* build_game_arguments' local args
    game_args,      \* Option<String>: what build_game_arguments returned
    java_command,   \* Option<String>: what build_java_command returned
    child,          \* Option: the spawned process
    error,          \* Option<io::Error>: the error launch_minecraft returned
    steps           \* the steps launch_minecraft has taken, in order

vars == <<pc, target_arch, mc_path, version_name, player_name, options,
          manifest_file, files, spawn_ok, root, version_json, lib, applied,
          rules_result, lib_path, libraries, args, game_args, java_command,
          child, error, steps>>

None == <<>>
Some(v) == <<v>>

SeqsUpTo(S, n) == UNION {[1..k -> S] : k \in 0..n}

(***************************************************************************)
(* Bounds of the model.                                                    *)
(***************************************************************************)
MaxRules == 2
MaxLibs == 2
MaxGame == 2


(***************************************************************************)
(* Text: str::replace, str::split, str::trim, [T]::join, format!("{}", u32) *)
(***************************************************************************)
Occurrences(s, pat) == {i \in 1..(Len(s) - Len(pat) + 1) : SubSeq(s, i, i + Len(pat) - 1) = pat}

Contains(s, pat) == Occurrences(s, pat) # {}

\* str::replace(from, to) for a non-empty pattern: the matches are found left
\* to right and do not overlap; the replacement text is not searched again.
RECURSIVE Replace(_, _, _)
Replace(s, from, to) ==
    IF Occurrences(s, from) = {}
    THEN s
    ELSE LET i == CHOOSE k \in Occurrences(s, from) :
                      \A j \in Occurrences(s, from) : k <= j
         IN  SubSeq(s, 1, i - 1) \o to
             \o Replace(SubSeq(s, i + Len(from), Len(s)), from, to)

\* str::split(sep) for a one-letter separator: always at least one part.
RECURSIVE Split(_, _)
Split(s, sep) ==
    IF \A i \in 1..Len(s) : s[i] # sep
    THEN <<s>>
    ELSE LET i == CHOOSE k \in 1..Len(s) :
                      s[k] = sep /\ \A j \in 1..(k - 1) : s[j] # sep
         IN  <<SubSeq(s, 1, i - 1)>> \o Split(SubSeq(s, i + 1, Len(s)), sep)

White == {" ", "\t", "\n", "\r"}

RECURSIVE TrimStart(_)
TrimStart(s) == IF s # <<>> /\ s[1] \in White THEN TrimStart(Tail(s)) ELSE s

RECURSIVE TrimEnd(_)
TrimEnd(s) ==
    IF s # <<>> /\ s[Len(s)] \in White THEN TrimEnd(SubSeq(s, 1, Len(s) - 1)) ELSE s

Trim(s) == TrimEnd(TrimStart(s))

RECURSIVE JoinWith(_, _)
JoinWith(list, sep) ==
    IF list = <<>> THEN <<>>
    ELSE IF Len(list) = 1 THEN list[1]
    ELSE list[1] \o sep \o JoinWith(Tail(list), sep)

Digit(d) == CASE d = 0 -> "0" [] d = 1 -> "1" [] d = 2 -> "2" [] d = 3 -> "3"
              [] d = 4 -> "4" [] d = 5 -> "5" [] d = 6 -> "6" [] d = 7 -> "7"
              [] d = 8 -> "8" [] d = 9 -> "9"

\* format!("{}", n) for an unsigned n
RECURSIVE Display(_)
Display(n) == IF n < 10 THEN <<Digit(n)>> ELSE Display(n \div 10) \o <<Digit(n % 10)>>

(***************************************************************************)
(* Paths.  The program is built for Windows: MAIN_SEPARATOR is "\".         *)
(* Path::join(p, c) for a component c that has no root and no prefix: a    *)
(* separator goes between p and c unless p is empty or ends with one.      *)
(***************************************************************************)
MAIN_SEPARATOR == "\\"

Join(p, c) ==
    IF p = <<>> \/ p[Len(p)] = MAIN_SEPARATOR
    THEN p \o c
    ELSE p \o <<MAIN_SEPARATOR>> \o c

exists(path) == path \in files

normalize_path(p) == [i \in 1..Len(p) |-> IF p[i] = "/" THEN MAIN_SEPARATOR ELSE p[i]]

(***************************************************************************)
(* check_library_rules                                                     *)
(***************************************************************************)
os_name == "windows"

os_arch == IF target_arch = "x86_64" THEN "x86_64" ELSE "x86"

\* apply_rule with an allow rule for another platform leaving the flag as it is
apply_rule_allow_keeps(rule, should_include) ==
    IF rule.action = "allow"
    THEN IF rule.os = None
         THEN TRUE
         ELSE LET os == rule.os[1]
              IN  IF os.name = Some(os_name)
                  THEN IF os.arch # None THEN os.arch[1] = os_arch ELSE TRUE
                  ELSE should_include
    ELSE IF rule.action = "disallow"
    THEN IF rule.os = None
         THEN FALSE
         ELSE IF rule.os[1].name = Some(os_name) THEN FALSE ELSE should_include
    ELSE should_include

\* apply_rule with a disallow rule excluding whatever platform it names
apply_rule_disallow_any_os(rule, should_include) ==
    IF rule.action = "allow"
    THEN IF rule.os = None
         THEN TRUE
         ELSE LET os == rule.os[1]
              IN  IF os.name = Some(os_name)
                  THEN IF os.arch # None THEN os.arch[1] = os_arch ELSE TRUE
                  ELSE FALSE
    ELSE IF rule.action = "disallow"
    THEN FALSE
    ELSE should_include

\* The body of the loop over lib.rules: the flag after one rule.
apply_rule(rule, should_include) ==
    IF rule.action = "allow"
    THEN IF rule.os = None
         THEN TRUE
         ELSE LET os == rule.os[1]
              IN  IF os.name = Some(os_name)
                  THEN IF os.arch # None THEN os.arch[1] = os_arch ELSE TRUE
                  ELSE FALSE
    ELSE IF rule.action = "disallow"
    THEN IF rule.os = None
         THEN FALSE
         ELSE IF rule.os[1].name = Some(os_name) THEN FALSE ELSE should_include
    ELSE should_include

\* rules_loop returning as soon as a rule has cleared the flag
RECURSIVE rules_loop_halts(_, _, _)
rules_loop_halts(rules, i, should_include) ==
    IF i > Len(rules) \/ ~should_include
    THEN should_include
    ELSE rules_loop_halts(rules, i + 1, apply_rule(rules[i], should_include))

RECURSIVE rules_loop(_, _, _)
rules_loop(rules, i, should_include) ==
    IF i > Len(rules)
    THEN should_include
    ELSE rules_loop(rules, i + 1, apply_rule(rules[i], should_include))

check_library_rules(l) ==
    IF l.rules = None \/ l.rules[1] = <<>>
    THEN TRUE
    ELSE rules_loop(l.rules[1], 1, TRUE)

(***************************************************************************)
(* get_library_path and build_libraries_path                               *)
(***************************************************************************)
arch_bits == IF target_arch = "x86_64" THEN <<"6", "4">> ELSE <<"3", "2">>

\* get_library_path giving up when a declared native jar is missing
get_library_path_no_fallback(path, l) ==
    LET parts == Split(l.name, ":")
    IN  IF Len(parts) < 3
        THEN None
        ELSE LET group_path  == [i \in 1..Len(parts[1]) |->
                                    IF parts[1][i] = "." THEN MAIN_SEPARATOR
                                                         ELSE parts[1][i]]
                 base_path   == Join(Join(Join(Join(path, <<"libraries">>),
                                               group_path), parts[2]), parts[3])
                 base_file   == parts[2] \o <<"-">> \o parts[3]
                 has_native  == /\ l.natives # None
                                /\ "windows" \in DOMAIN l.natives[1]
                 classifier  == Replace(l.natives[1]["windows"],
                                        <<"$", "{", "arch", "}">>, arch_bits)
                 native_path == Join(base_path,
                                     base_file \o <<"-">> \o classifier \o <<".", "jar">>)
                 jar_path    == Join(base_path, base_file \o <<".", "jar">>)
             IN  IF has_native
                 THEN IF exists(native_path) THEN Some(native_path) ELSE None
                 ELSE IF exists(jar_path) THEN Some(jar_path) ELSE None

get_library_path(path, l) ==
    LET parts == Split(l.name, ":")
    IN  IF Len(parts) < 3
        THEN None
        ELSE LET group_path  == [i \in 1..Len(parts[1]) |->
                                    IF parts[1][i] = "." THEN MAIN_SEPARATOR
                                                         ELSE parts[1][i]]
                 artifact_id == parts[2]
                 version     == parts[3]
                 base_path   == Join(Join(Join(Join(path, <<"libraries">>),
                                               group_path), artifact_id), version)
                 base_file   == artifact_id \o <<"-">> \o version
                 has_native  == /\ l.natives # None
                                /\ "windows" \in DOMAIN l.natives[1]
                 classifier  == Replace(l.natives[1]["windows"],
                                        <<"$", "{", "arch", "}">>, arch_bits)
                 native_path == Join(base_path,
                                     base_file \o <<"-">> \o classifier \o <<".", "jar">>)
                 jar_path    == Join(base_path, base_file \o <<".", "jar">>)
             IN  IF has_native /\ exists(native_path)
                 THEN Some(native_path)
                 ELSE IF exists(jar_path) THEN Some(jar_path) ELSE None

\* The version's own jar, the vec! the list starts from.
version_jar(path, vj) ==
    Join(Join(Join(path, <<"versions">>), vj.id), vj.id \o <<".", "jar">>)

\* libraries_loop leaving out a path that is already in the list
RECURSIVE libraries_loop_dedup(_, _, _, _)
libraries_loop_dedup(path, libs, i, acc) ==
    IF i > Len(libs)
    THEN acc
    ELSE IF ~check_library_rules(libs[i])
         THEN libraries_loop_dedup(path, libs, i + 1, acc)
         ELSE LET lib_path_i == get_library_path(path, libs[i])
              IN  IF lib_path_i # None /\ \A k \in 1..Len(acc) : acc[k] # lib_path_i[1]
                  THEN libraries_loop_dedup(path, libs, i + 1, Append(acc, lib_path_i[1]))
                  ELSE libraries_loop_dedup(path, libs, i + 1, acc)

\* The loop over version_json.libraries, from library i on.
RECURSIVE libraries_loop(_, _, _, _)
libraries_loop(path, libs, i, acc) ==
    IF i > Len(libs)
    THEN acc
    ELSE IF ~check_library_rules(libs[i])
         THEN libraries_loop(path, libs, i + 1, acc)
         ELSE LET lib_path_i == get_library_path(path, libs[i])
              IN  IF lib_path_i # None
                  THEN libraries_loop(path, libs, i + 1, Append(acc, lib_path_i[1]))
                  ELSE libraries_loop(path, libs, i + 1, acc)

Ok(v) == [ok |-> TRUE, value |-> v]
Err(kind, message) == [ok |-> FALSE, kind |-> kind, message |-> message]

build_libraries_path(path, vj) ==
    Ok(JoinWith(libraries_loop(path, vj.libraries, 1, <<version_jar(path, vj)>>),
                <<";">>))

(***************************************************************************)
(* build_game_arguments                                                    *)
(***************************************************************************)
\* game_loop appending the entries without the space before each
RECURSIVE game_loop_no_space(_, _, _)
game_loop_no_space(game, i, acc) ==
    IF i > Len(game)
    THEN acc
    ELSE IF game[i].kind = "String"
         THEN game_loop_no_space(game, i + 1, acc \o game[i].s)
         ELSE game_loop_no_space(game, i + 1, acc)

\* minecraftArguments, then every GameArgument::String of arguments.game
RECURSIVE game_loop(_, _, _)
game_loop(game, i, acc) ==
    IF i > Len(game)
    THEN acc
    ELSE IF game[i].kind = "String"
         THEN game_loop(game, i + 1, acc \o <<" ">> \o game[i].s)
         ELSE game_loop(game, i + 1, acc)

collect_arguments(vj) ==
    LET legacy == IF vj.minecraft_arguments # None THEN vj.minecraft_arguments[1]
                                                   ELSE <<>>
    IN  IF vj.arguments # None
        THEN game_loop(vj.arguments[1].game, 1, legacy)
        ELSE legacy

replacements(path, version, player, vj) ==
    LET assets_path  == Join(path, <<"assets">>)
        assets_index == IF vj.assets # None THEN vj.assets[1] ELSE <<>>
    IN  << <<(<<"$", "{", "auth_player_name", "}">>), player>>,
           <<(<<"$", "{", "version_name", "}">>), version>>,
           <<(<<"$", "{", "game_directory", "}">>), path>>,
           <<(<<"$", "{", "assets_root", "}">>), assets_path>>,
           <<(<<"$", "{", "assets_index_name", "}">>), assets_index>>,
           <<(<<"$", "{", "auth_uuid", "}">>),
             (<<"0", "0", "0", "0", "0", "0", "0", "0", "-", "0", "0", "0", "0", "-",
               "0", "0", "0", "0", "-", "0", "0", "0", "0", "-",
               "0", "0", "0", "0", "0", "0", "0", "0", "0", "0", "0", "0">>)>>,
           <<(<<"$", "{", "auth_access_token", "}">>),
             (<<"0", "0", "0", "0", "0", "0", "0", "0", "0", "0", "0", "0", "0", "0",
               "0", "0", "0", "0", "0", "0", "0", "0", "0", "0", "0", "0", "0", "0",
               "0", "0", "0", "0">>)>>,
           <<(<<"$", "{", "user_type", "}">>), (<<"legacy">>)>>,
           <<(<<"$", "{", "version_type", "}">>),
             (<<"WMML", " ", "0", ".", "1", ".", "2", "6">>)>> >>

\* replace_loop stopping one pair short of the end of the table
RECURSIVE replace_loop_off_by_one(_, _, _)
replace_loop_off_by_one(text, reps, i) ==
    IF i >= Len(reps)
    THEN text
    ELSE replace_loop_off_by_one(Replace(text, reps[i][1], reps[i][2]), reps, i + 1)

\* for (placeholder, value) in replacements { args = args.replace(..) }
RECURSIVE replace_loop(_, _, _)
replace_loop(text, reps, i) ==
    IF i > Len(reps)
    THEN text
    ELSE replace_loop(Replace(text, reps[i][1], reps[i][2]), reps, i + 1)

\* A templating pass: what is left of the form ${...} after the replacements
\* is removed.
RECURSIVE StripTokens(_)
StripTokens(t) ==
    LET opens == {i \in 1..(Len(t) - 1) :
                    /\ t[i] = "$" /\ t[i + 1] = "{"
                    /\ \E j \in (i + 2)..Len(t) : t[j] = "}"}
    IN  IF opens = {}
        THEN t
        ELSE LET i == CHOOSE k \in opens : \A m \in opens : k <= m
                 j == CHOOSE k \in (i + 2)..Len(t) :
                         t[k] = "}" /\ \A m \in (i + 2)..(k - 1) : t[m] # "}"
             IN  SubSeq(t, 1, i - 1) \o StripTokens(SubSeq(t, j + 1, Len(t)))

replace_placeholders_templating(text, path, version, player, vj) ==
    StripTokens(replace_loop(text, replacements(path, version, player, vj), 1))

replace_placeholders(text, path, version, player, vj) ==
    replace_loop(text, replacements(path, version, player, vj), 1)

build_game_arguments(path, version, player, vj) ==
    Trim(replace_placeholders(collect_arguments(vj), path, version, player, vj))

(***************************************************************************)
(* build_java_command                                                      *)
(***************************************************************************)
\* memory_settings looking at the fixed memory value only
memory_settings_ignores_flag(opts) ==
    IF opts.memory # None
    THEN <<"-", "Xmx">> \o Display(opts.memory[1]) \o <<"M", " ">>
         \o <<"-", "Xms">> \o Display(opts.memory[1]) \o <<"M", " ">>
    ELSE <<>>

memory_settings(opts) ==
    IF ~opts.use_system_memory /\ opts.memory # None
    THEN <<"-", "Xmx">> \o Display(opts.memory[1]) \o <<"M", " ">>
         \o <<"-", "Xms">> \o Display(opts.memory[1]) \o <<"M", " ">>
    ELSE <<>>

common_args(path, version) ==
    LET dir     == Join(Join(path, <<"versions">>), version)
        log4j   == Join(dir, <<"log", "4", "j", "2", ".", "xml">>)
        jar     == Join(dir, version \o <<".", "jar">>)
        natives == Join(dir, <<"natives", "-", "windows", "-",
                               "x", "8", "6", "_", "6", "4">>)
    IN JoinWith(<<
        <<"-", "Dfile", ".", "encoding", "=", "GB", "1", "8", "0", "3", "0">>,
        <<"-", "Dsun", ".", "stdout", ".", "encoding", "=", "GB", "1", "8", "0", "3", "0">>,
        <<"-", "Dsun", ".", "stderr", ".", "encoding", "=", "GB", "1", "8", "0", "3", "0">>,
        <<"-", "Djava", ".", "rmi", ".", "server", ".", "useCodebaseOnly", "=", "true">>,
        <<"-", "Dcom", ".", "sun", ".", "jndi", ".", "rmi", ".", "object", ".",
          "trustURLCodebase", "=", "false">>,
        <<"-", "Dcom", ".", "sun", ".", "jndi", ".", "cosnaming", ".", "object", ".",
          "trustURLCodebase", "=", "false">>,
        <<"-", "Dlog", "4", "j", "2", ".", "formatMsgNoLookups", "=", "true">>,
        <<"-", "Dlog", "4", "j", ".", "configurationFile", "=">> \o log4j,
        <<"-", "Dminecraft", ".", "client", ".", "jar", "=">> \o jar,
        <<"-", "XX", ":", "+", "UnlockExperimentalVMOptions">>,
        <<"-", "XX", ":", "+", "UseG", "1", "GC">>,
        <<"-", "XX", ":", "G", "1", "NewSizePercent", "=", "2", "0">>,
        <<"-", "XX", ":", "G", "1", "ReservePercent", "=", "2", "0">>,
        <<"-", "XX", ":", "MaxGCPauseMillis", "=", "5", "0">>,
        <<"-", "XX", ":", "G", "1", "HeapRegionSize", "=", "3", "2", "m">>,
        <<"-", "XX", ":", "-", "UseAdaptiveSizePolicy">>,
        <<"-", "XX", ":", "-", "OmitStackTraceInFastThrow">>,
        <<"-", "XX", ":", "-", "DontCompileHugeMethods">>,
        <<"-", "Dfml", ".", "ignoreInvalidMinecraftCertificates", "=", "true">>,
        <<"-", "Dfml", ".", "ignorePatchDiscrepancies", "=", "true">>,
        <<"-", "XX", ":", "HeapDumpPath", "=",
          "MojangTricksIntelDriversForPerformance_javaw", ".", "exe_minecraft", ".",
          "exe", ".", "heapdump">>,
        <<"-", "Djava", ".", "library", ".", "path", "=">> \o natives,
        <<"-", "Djna", ".", "tmpdir", "=">> \o natives,
        <<"-", "Dorg", ".", "lwjgl", ".", "system", ".",
          "SharedLibraryExtractPath", "=">> \o natives,
        <<"-", "Dio", ".", "netty", ".", "native", ".", "workdir", "=">> \o natives,
        <<"-", "Dminecraft", ".", "launcher", ".", "brand", "=", "WMML">>,
        <<"-", "Dminecraft", ".", "launcher", ".", "version", "=",
          "0", ".", "1", ".", "2", "6">>
       >>, <<" ">>)

\* format!("{} {} {} -cp {} {} {}", ...)
build_java_command(path, version, main_class, classpath, gargs, opts) ==
    opts.java_path \o <<" ">> \o memory_settings(opts) \o <<" ">>
    \o common_args(path, version) \o <<" ", "-", "cp", " ">> \o classpath
    \o <<" ">> \o main_class \o <<" ">> \o gargs

(***************************************************************************)
(* read_version_json                                                       *)
(*                                                                         *)
(* manifest_file is what the read finds: [state |-> "missing"] or          *)
(* [state |-> "denied"] (fs::read_to_string fails with that io error),     *)
(* [state |-> "malformed"] (the text does not decode as a VersionJson) or  *)
(* [state |-> "valid", json |-> the VersionJson it decodes to].            *)
(* The two message prefixes are the source's Chinese texts, "cannot read   *)
(* file" and "invalid JSON format", each one word here.                    *)
(***************************************************************************)
version_json_path(path, version) ==
    Join(Join(Join(path, <<"versions">>), version), version \o <<".", "json">>)

\* read_version_json with error messages that leave the path out
read_version_json_no_path(path, file) ==
    IF file.state \in {"missing", "denied"}
    THEN Err("NotFound", <<"cannot_read_file", ":", " ">> \o <<file.state>>)
    ELSE IF file.state = "malformed"
    THEN Err("InvalidData", <<"invalid_JSON_format", ":", " ">> \o <<"serde_error">>)
    ELSE Ok(file.json)

read_version_json(path, file) ==
    IF file.state \in {"missing", "denied"}
    THEN Err("NotFound", <<"cannot_read_file", " ">> \o path \o <<":", " ">>
                         \o <<file.state>>)
    ELSE IF file.state = "malformed"
    THEN Err("InvalidData", <<"invalid_JSON_format", " ">> \o path \o <<":", " ">>
                            \o <<"serde_error">>)
    ELSE Ok(file.json)

(***************************************************************************)
(* Specification SpecRules: check_library_rules on one library.            *)
(* CheckLibraryRules is the whole call; ApplyRule is one pass of its loop, *)
(* entered with the flag the passes before it left.                        *)
(***************************************************************************)
OsSet == [name : {None, Some("windows"), Some("linux")},
          arch : {None, Some("x86_64"), Some("x86")}]

RuleSet == [action : {"allow", "disallow", "deny"},
            os     : {None} \cup {Some(o) : o \in OsSet}]

RuleLists == {None} \cup {Some(r) : r \in SeqsUpTo(RuleSet, MaxRules)}

\* cfg!(target_arch) of the build; os_arch is "x86" on every build but x86_64.
Targets == {"x86_64", "x86", "aarch64"}

launchVars == <<mc_path, manifest_file, spawn_ok, child, error, steps>>
inputVars == <<target_arch, version_name, player_name, options, files, root,
               version_json>>
ruleVars == <<applied, rules_result>>
outputVars == <<lib_path, libraries, args, game_args, java_command>>

InitRules ==
    /\ pc = "rules"
    /\ target_arch \in Targets
    /\ lib \in {[name |-> <<"a", ":", "b", ":", "1">>, rules |-> r, natives |-> None] :
                  r \in RuleLists}
    /\ applied = None /\ rules_result = None
    /\ mc_path = None /\ manifest_file = None /\ spawn_ok = None
    /\ child = None /\ error = None /\ steps = None
    /\ version_name = None /\ player_name = None /\ options = None
    /\ files = {} /\ root = None /\ version_json = None
    /\ lib_path = None /\ libraries = None /\ args = None
    /\ game_args = None /\ java_command = None

CheckLibraryRules ==
    /\ pc = "rules"
    /\ rules_result' = Some(check_library_rules(lib))
    /\ pc' = "rules_returned"
    /\ UNCHANGED <<lib, applied, launchVars, inputVars, outputVars>>

ApplyRule ==
    /\ pc = "rules"
    /\ lib.rules # None
    /\ \E i \in 1..Len(lib.rules[1]) :
          LET before == rules_loop(SubSeq(lib.rules[1], 1, i - 1), 1, TRUE)
          IN  applied' = [rule   |-> lib.rules[1][i],
                          before |-> before,
                          after  |-> apply_rule(lib.rules[1][i], before)]
    /\ pc' = "rule_applied"
    /\ UNCHANGED <<lib, rules_result, launchVars, inputVars, outputVars>>

NextRules == CheckLibraryRules \/ ApplyRule

SpecRules == InitRules /\ [][NextRules]_vars

(***************************************************************************)
(* Claims about check_library_rules (SpecRules)                            *)
(***************************************************************************)
RulesOf(l) == IF l.rules = None THEN <<>> ELSE l.rules[1]

AllowAny == [action |-> "allow", os |-> None]
DisallowAny == [action |-> "disallow", os |-> None]
DisallowWindows == [action |-> "disallow",
                    os |-> Some([name |-> Some("windows"), arch |-> None])]

\* The flag after the first n rules: true before any rule, then each rule in
\* turn applied to the flag the rules before it left.
RECURSIVE FlagAfter(_, _)
FlagAfter(rules, n) ==
    IF n = 0 THEN TRUE ELSE apply_rule(rules[n], FlagAfter(rules, n - 1))

\* C1: check_library_rules returns the include flag that starts at true and is
\* updated by every rule in manifest order, none stopping the iteration; absent
\* or empty rules give true; [allow without OS, disallow for the target
\* platform without architecture] gives false though the first rule alone
\* gives true.
C1_FlagAfterAllRules ==
    pc = "rules_returned" =>
        /\ rules_result = Some(FlagAfter(RulesOf(lib), Len(RulesOf(lib))))
        /\ RulesOf(lib) = <<>> => rules_result = Some(TRUE)
        /\ RulesOf(lib) = <<AllowAny, DisallowWindows>> => rules_result = Some(FALSE)
        /\ RulesOf(lib) = <<AllowAny>> => rules_result = Some(TRUE)

C1_Witness ==
    /\ pc = "rules_returned"
    /\ RulesOf(lib) = <<AllowAny, DisallowWindows>>
    /\ rules_result = Some(FALSE)

\* C8: one allow rule overwrites the flag whatever it was: true without an OS
\* constraint; false when the constraint's platform name is not the target's
\* (a constraint without a name included); with the target's name, true when
\* no architecture is given and otherwise whether it is the architecture the
\* build evaluates rules for (os_arch).
C8_AllowOverwrites ==
    (pc = "rule_applied" /\ applied.rule.action = "allow") =>
        applied.after =
            IF applied.rule.os = None THEN TRUE
            ELSE IF applied.rule.os[1].name # Some("windows") THEN FALSE
            ELSE IF applied.rule.os[1].arch = None THEN TRUE
            ELSE applied.rule.os[1].arch[1] = os_arch

C8_Witness ==
    /\ pc = "rule_applied"
    /\ applied.rule.action = "allow"
    /\ applied.rule.os = None
    /\ ~applied.before
    /\ applied.after

\* C9: one disallow rule clears the flag when it has no OS constraint or names
\* the target platform and leaves it alone otherwise; a rule that is neither
\* allow nor disallow leaves it alone; a library whose only rule is a disallow
\* without OS constraint is excluded.
C9_DisallowAndOther ==
    /\ (pc = "rule_applied" /\ applied.rule.action = "disallow") =>
           applied.after =
               IF applied.rule.os = None \/ applied.rule.os[1].name = Some("windows")
               THEN FALSE
               ELSE applied.before
    /\ (pc = "rule_applied" /\ applied.rule.action \notin {"allow", "disallow"}) =>
           applied.after = applied.before
    /\ (pc = "rules_returned" /\ RulesOf(lib) = <<DisallowAny>>) =>
           rules_result = Some(FALSE)

C9_Witness ==
    /\ pc = "rule_applied"
    /\ applied.rule.action = "disallow"
    /\ applied.rule.os # None
    /\ applied.rule.os[1].name = Some("linux")
    /\ applied.before
    /\ applied.after

(***************************************************************************)
(* Specification SpecLibs: build_libraries_path on a manifest and a file   *)
(* system, and get_library_path on one of the manifest's libraries that    *)
(* check_library_rules lets through (the only ones it is called for).      *)
(***************************************************************************)
RootDir == <<"C", ":", "\\", "mc">>

VersionId == <<"1", ".", "2", "0", ".", "1">>

Manifest(id, libs, legacy, structured, assets) ==
    [id |-> id,
     main_class |-> <<"net", ".", "minecraft", ".", "client", ".", "main", ".", "Main">>,
     minecraft_arguments |-> legacy,
     arguments |-> structured,
     libraries |-> libs,
     assets |-> assets,
     version_type |-> Some(<<"release">>)]

FooName == <<"com", ".", "example", ":", "foolib", ":", "1", ".", "0">>
LwjglName == <<"org", ".", "lwjgl", ":", "lwjgl", ":", "3", ".", "3", ".", "1">>

LibSet ==
    { [name |-> FooName, rules |-> None, natives |-> None],
      [name |-> FooName, rules |-> Some(<<DisallowWindows>>), natives |-> None],
      [name |-> <<"foolib", ":", "1", ".", "0">>, rules |-> None, natives |-> None],
      [name |-> LwjglName, rules |-> Some(<<AllowAny>>),
       natives |-> Some([windows |-> <<"natives", "-", "windows", "-",
                                       "$", "{", "arch", "}">>,
                         linux   |-> <<"natives", "-", "linux">>])],
      [name |-> LwjglName, rules |-> None,
       natives |-> Some([linux |-> <<"natives", "-", "linux">>])] }

VersionJarFile ==
    <<"C", ":", "\\", "mc", "\\", "versions", "\\", "1", ".", "2", "0", ".", "1",
      "\\", "1", ".", "2", "0", ".", "1", ".", "jar">>
FooJarFile ==
    <<"C", ":", "\\", "mc", "\\", "libraries", "\\", "com", "\\", "example", "\\",
      "foolib", "\\", "1", ".", "0", "\\", "foolib", "-", "1", ".", "0", ".", "jar">>
LwjglJarFile ==
    <<"C", ":", "\\", "mc", "\\", "libraries", "\\", "org", "\\", "lwjgl", "\\",
      "lwjgl", "\\", "3", ".", "3", ".", "1", "\\",
      "lwjgl", "-", "3", ".", "3", ".", "1", ".", "jar">>
LwjglNativeFile(bits) ==
    <<"C", ":", "\\", "mc", "\\", "libraries", "\\", "org", "\\", "lwjgl", "\\",
      "lwjgl", "\\", "3", ".", "3", ".", "1", "\\",
      "lwjgl", "-", "3", ".", "3", ".", "1", "-", "natives", "-", "windows", "-">>
    \o bits \o <<".", "jar">>

FileSet == {VersionJarFile, FooJarFile, LwjglJarFile,
            LwjglNativeFile(<<"6", "4">>), LwjglNativeFile(<<"3", "2">>)}

InitLibs ==
    /\ pc = "libs"
    /\ target_arch \in Targets
    /\ root = RootDir
    /\ version_json \in {Manifest(VersionId, l, None, None, None) :
                           l \in SeqsUpTo(LibSet, MaxLibs)}
    /\ files \in SUBSET FileSet
    /\ lib = None /\ applied = None /\ rules_result = None
    /\ mc_path = None /\ manifest_file = None /\ spawn_ok = None
    /\ child = None /\ error = None /\ steps = None
    /\ version_name = None /\ player_name = None /\ options = None
    /\ lib_path = None /\ libraries = None /\ args = None
    /\ game_args = None /\ java_command = None

BuildLibrariesPath ==
    /\ pc = "libs"
    /\ libraries' = Some(build_libraries_path(root, version_json))
    /\ pc' = "libs_returned"
    /\ UNCHANGED <<lib, lib_path, args, game_args, java_command,
                   ruleVars, launchVars, inputVars>>

GetLibraryPath ==
    /\ pc = "libs"
    /\ \E i \in 1..Len(version_json.libraries) :
          /\ check_library_rules(version_json.libraries[i])
          /\ lib' = version_json.libraries[i]
          /\ lib_path' = Some(get_library_path(root, version_json.libraries[i]))
    /\ pc' = "lib_path_returned"
    /\ UNCHANGED <<libraries, args, game_args, java_command,
                   ruleVars, launchVars, inputVars>>

NextLibs == BuildLibrariesPath \/ GetLibraryPath

SpecLibs == InitLibs /\ [][NextLibs]_vars

(***************************************************************************)
(* Claims about build_libraries_path and get_library_path (SpecLibs)       *)
(***************************************************************************)
\* The paths of the libraries that pass their rules and resolve, in list order.
RECURSIVE ResolvedInOrder(_)
ResolvedInOrder(libs) ==
    IF libs = <<>> THEN <<>>
    ELSE (IF check_library_rules(libs[1]) THEN get_library_path(root, libs[1])
                                          ELSE <<>>)
         \o ResolvedInOrder(Tail(libs))

Entries(classpath) == Split(classpath, ";")

\* C2: the classpath's first entry is root\versions\<id>\<id>.jar from the
\* manifest's id, whether or not that file exists; then come the resolved paths
\* of the included libraries in manifest order, one per library entry (equal
\* coordinates give equal entries, nothing is dropped); the entries are joined
\* with ";".
C2_ClasspathOrder ==
    pc = "libs_returned" =>
        LET value == libraries[1].value
            id    == version_json.id
            jar   == Join(Join(Join(root, <<"versions">>), id), id \o <<".", "jar">>)
        IN  /\ libraries[1].ok
            /\ Entries(value)[1] = jar
            /\ Entries(value) = <<jar>> \o ResolvedInOrder(version_json.libraries)
            /\ value = JoinWith(Entries(value), <<";">>)
            /\ (version_json.libraries = <<[name |-> FooName, rules |-> None,
                                            natives |-> None]>>
                /\ FooJarFile \in files)
               => value = VersionJarFile \o <<";">> \o FooJarFile

C2_Witness ==
    /\ pc = "libs_returned"
    /\ VersionJarFile \notin files
    /\ Len(version_json.libraries) = 2
    /\ version_json.libraries[1] = version_json.libraries[2]
    /\ Entries(libraries[1].value) = <<VersionJarFile, FooJarFile, FooJarFile>>

Declared(l) == l.natives # None /\ "windows" \in DOMAIN l.natives[1]

\* C3: for a library that passed its rules get_library_path gives at most one
\* path and no error: none for a coordinate of fewer than 3 segments; else
\* <artifact>-<version>-<classifier>.jar when a classifier is declared for
\* windows and that file exists; else <artifact>-<version>.jar when that file
\* exists; else none.  build_libraries_path itself always returns Ok.
C3_LibraryPath ==
    /\ pc = "lib_path_returned" =>
         LET seg == Split(lib.name, ":")
             got == lib_path[1]
         IN  /\ Len(got) <= 1
             /\ Len(seg) < 3 => got = None
             /\ Len(seg) >= 3 =>
                  LET dir    == Join(Join(Join(Join(root, <<"libraries">>),
                                     Replace(seg[1], <<".">>, <<MAIN_SEPARATOR>>)),
                                     seg[2]), seg[3])
                      plain  == Join(dir, seg[2] \o <<"-">> \o seg[3] \o <<".", "jar">>)
                      native == Join(dir, seg[2] \o <<"-">> \o seg[3] \o <<"-">>
                                          \o Replace(lib.natives[1]["windows"],
                                                     <<"$", "{", "arch", "}">>,
                                                     arch_bits)
                                          \o <<".", "jar">>)
                  IN  got = IF Declared(lib) /\ native \in files THEN Some(native)
                            ELSE IF plain \in files THEN Some(plain)
                            ELSE None
    /\ pc = "libs_returned" => libraries[1].ok

\* a declared native jar is missing and the plain jar is returned instead
C3_Witness ==
    /\ pc = "lib_path_returned"
    /\ Declared(lib)
    /\ LwjglNativeFile(arch_bits) \notin files
    /\ lib_path = Some(Some(LwjglJarFile))

(***************************************************************************)
(* Specification SpecArgs: build_game_arguments, in its three phases: the  *)
(* text is collected from the manifest, the placeholders are replaced, the *)
(* result is trimmed and returned.                                         *)
(***************************************************************************)
Token(name) == <<"$", "{", name, "}">>

Flag(name, token) == <<"-", "-", name, " ">> \o Token(token)

LegacyUsername == Flag("username", "auth_player_name")

LegacyFull ==
    JoinWith(<<Flag("username", "auth_player_name"), Flag("version", "version_name"),
               Flag("gameDir", "game_directory"), Flag("assetsDir", "assets_root"),
               Flag("assetIndex", "assets_index_name"), Flag("uuid", "auth_uuid"),
               Flag("accessToken", "auth_access_token"), Flag("userType", "user_type"),
               Flag("versionType", "version_type")>>, <<" ">>)

LegacySet ==
    { LegacyUsername,
      LegacyFull,
      <<" ">> \o Flag("demo", "unknown_thing") \o <<" ">> \o Token("user_type") \o <<" ">>,
      LegacyFull \o <<" ", "$", "{">> \o Token("version_name") \o <<"}">> }

GameSet ==
    { [kind |-> "String", s |-> <<"-", "-", "width">>],
      [kind |-> "String", s |-> Token("auth_player_name")],
      [kind |-> "String", s |-> Token("resolution_width")],
      [kind |-> "Object", s |-> <<>>] }

PlayerSet == { <<"Player", "1", "2", "3">>, Token("version_name") }

VersionSet == { VersionId, <<"auth_player_name">> }

InitArgs ==
    /\ pc = "args"
    /\ target_arch = "x86_64"
    /\ root = RootDir
    /\ version_name \in VersionSet
    /\ player_name \in PlayerSet
    /\ version_json \in
         {Manifest(VersionId, <<>>, legacy, structured, assets) :
            legacy \in {None} \cup {Some(t) : t \in LegacySet},
            structured \in {None} \cup {Some([game |-> g]) :
                                          g \in SeqsUpTo(GameSet, MaxGame)},
            assets \in {None, Some(<<"5">>)}}
    /\ args = <<>>
    /\ files = {}
    /\ lib = None /\ applied = None /\ rules_result = None
    /\ mc_path = None /\ manifest_file = None /\ spawn_ok = None
    /\ child = None /\ error = None /\ steps = None
    /\ options = None
    /\ lib_path = None /\ libraries = None
    /\ game_args = None /\ java_command = None

argsFrame == <<lib, lib_path, libraries, java_command, ruleVars, launchVars, inputVars>>

CollectArguments ==
    /\ pc = "args"
    /\ args' = collect_arguments(version_json)
    /\ pc' = "args_collected"
    /\ UNCHANGED <<game_args, argsFrame>>

ReplacePlaceholders ==
    /\ pc = "args_collected"
    /\ args' = replace_placeholders(args, root, version_name, player_name, version_json)
    /\ pc' = "args_replaced"
    /\ UNCHANGED <<game_args, argsFrame>>

TrimArguments ==
    /\ pc = "args_replaced"
    /\ game_args' = Some(Trim(args))
    /\ pc' = "args_returned"
    /\ UNCHANGED <<args, argsFrame>>

NextArgs == CollectArguments \/ ReplacePlaceholders \/ TrimArguments

SpecArgs == InitArgs /\ [][NextArgs]_vars

(***************************************************************************)
(* Claims about build_game_arguments (SpecArgs)                            *)
(***************************************************************************)
TokenNames == <<"auth_player_name", "version_name", "game_directory", "assets_root",
                "assets_index_name", "auth_uuid", "auth_access_token", "user_type",
                "version_type">>

KnownTokens == {Token(TokenNames[i]) : i \in 1..Len(TokenNames)}

\* The argument string the substitution is given.
ArgumentText == collect_arguments(version_json)

\* The value each token stands for: the supplied ones, the derived ones, and
\* the four fixed texts of the replacement table.
ValueOf(i) ==
    CASE i = 1 -> player_name
      [] i = 2 -> version_name
      [] i = 3 -> root
      [] i = 4 -> Join(root, <<"assets">>)
      [] i = 5 -> IF version_json.assets = None THEN <<>> ELSE version_json.assets[1]
      [] OTHER -> replacements(root, version_name, player_name, version_json)[i][2]

ValueOfToken(tok) == ValueOf(CHOOSE i \in 1..Len(TokenNames) : tok = Token(TokenNames[i]))

\* The text with the value of each token at the position of that token.
RECURSIVE Substituted(_)
Substituted(t) ==
    LET starts == {i \in 1..(Len(t) - 3) : SubSeq(t, i, i + 3) \in KnownTokens}
    IN  IF starts = {}
        THEN t
        ELSE LET i == CHOOSE k \in starts : \A m \in starts : k <= m
             IN  SubSeq(t, 1, i - 1) \o ValueOfToken(SubSeq(t, i, i + 3))
                 \o Substituted(SubSeq(t, i + 4, Len(t)))

\* The text without its leading and trailing whitespace.
Trimmed(t) ==
    LET ink == {k \in 1..Len(t) : t[k] \notin White}
    IN  IF ink = {} THEN <<>>
        ELSE SubSeq(t, CHOOSE k \in ink : \A m \in ink : k <= m,
                       CHOOSE k \in ink : \A m \in ink : m <= k)

ContainsEveryToken(t) == \A tok \in KnownTokens : Contains(t, tok)

Exhaustive ==
    /\ \A tok \in KnownTokens : ~Contains(game_args[1], tok)
    /\ game_args[1] = Trimmed(Substituted(ArgumentText))

\* C4 as stated: for every player name, version identifier, root directory and
\* asset index name, an argument string that contains every token of the fixed
\* set gives a result with none of the tokens in it and the exact value at the
\* position of each token.
C4_AsStated ==
    (pc = "args_returned" /\ ContainsEveryToken(ArgumentText)) => Exhaustive

NoDollarInValues ==
    \A i \in 1..5 : \A k \in 1..Len(ValueOf(i)) : ValueOf(i)[k] # "$"

EveryDollarBeginsAToken(t) ==
    \A i \in 1..Len(t) :
        t[i] = "$" => (i + 3 <= Len(t) /\ SubSeq(t, i, i + 3) \in KnownTokens)

\* C4 amended: the same, for an argument string in which every "$" begins one
\* of the nine tokens and for values that contain no "$".
C4_DisjointTokens ==
    (/\ pc = "args_returned"
     /\ ContainsEveryToken(ArgumentText)
     /\ EveryDollarBeginsAToken(ArgumentText)
     /\ NoDollarInValues) => Exhaustive

C4_Witness ==
    /\ pc = "args_returned"
    /\ ContainsEveryToken(ArgumentText)
    /\ EveryDollarBeginsAToken(ArgumentText)
    /\ NoDollarInValues
    /\ version_json.arguments # None
    /\ Len(version_json.arguments[1].game) = 2
    /\ Contains(game_args[1], <<"-", "-", "username", " ">> \o player_name \o <<" ">>)

\* The tokens ${name} of the text that are not among the nine: name is any
\* run of letters other than "$", "{" and "}".
UnknownTokens(t) ==
    {SubSeq(t, ij[1], ij[2]) : ij \in
        {ij \in (1..Len(t)) \X (1..Len(t)) :
            /\ ij[1] + 2 <= ij[2]
            /\ t[ij[1]] = "$" /\ t[ij[1] + 1] = "{" /\ t[ij[2]] = "}"
            /\ \A k \in (ij[1] + 2)..(ij[2] - 1) : t[k] \notin {"$", "{", "}"}
            /\ SubSeq(t, ij[1], ij[2]) \notin KnownTokens}}

\* C5: a token ${...} of the argument string whose name is not one of the nine
\* is in the result unchanged, as often as it was in the argument string.
C5_UnknownTokenKept ==
    pc = "args_returned" =>
        \A u \in UnknownTokens(ArgumentText) :
            /\ Contains(game_args[1], u)
            /\ Cardinality(Occurrences(game_args[1], u))
                 >= Cardinality(Occurrences(ArgumentText, u))

C5_Witness ==
    /\ pc = "args_returned"
    /\ Token("unknown_thing") \in UnknownTokens(ArgumentText)
    /\ Contains(ArgumentText, Token("user_type"))
    /\ Contains(game_args[1], Token("unknown_thing"))
    /\ Contains(game_args[1], <<"legacy">>)
    /\ player_name = Token("version_name")

\* The text every plain-string entry adds: one space, then the entry.
RECURSIVE PlainEntries(_)
PlainEntries(game) ==
    IF game = <<>> THEN <<>>
    ELSE PlainEntries(SubSeq(game, 1, Len(game) - 1))
         \o (IF game[Len(game)].kind = "String"
             THEN <<" ">> \o game[Len(game)].s ELSE <<>>)

\* C10: the text before substitution is the legacy string (when present) and
\* then, in list order, every plain-string entry of the structured list with
\* one space before it, object entries adding nothing; what is returned is the
\* substituted text without leading and trailing whitespace; the legacy string
\* "--username ${auth_player_name}" with player name "Player123" gives
\* "--username Player123".
C10_CollectedThenTrimmed ==
    /\ pc = "args_collected" =>
         args = (IF version_json.minecraft_arguments = None
                 THEN <<>> ELSE version_json.minecraft_arguments[1])
                \o (IF version_json.arguments = None
                    THEN <<>> ELSE PlainEntries(version_json.arguments[1].game))
    /\ pc = "args_returned" => game_args = Some(Trimmed(args))
    /\ (/\ pc = "args_returned"
        /\ version_json.minecraft_arguments = Some(LegacyUsername)
        /\ version_json.arguments = None
        /\ player_name = <<"Player", "1", "2", "3">>)
       => game_args = Some(<<"-", "-", "username", " ", "Player", "1", "2", "3">>)

C10_Witness ==
    /\ pc = "args_returned"
    /\ version_json.minecraft_arguments # None
    /\ version_json.minecraft_arguments[1][1] = " "
    /\ version_json.arguments # None
    /\ Len(version_json.arguments[1].game) = 2
    /\ version_json.arguments[1].game[1].kind = "Object"
    /\ version_json.arguments[1].game[2].kind = "String"
    /\ game_args # Some(args)

(***************************************************************************)
(* Specification SpecCmd: build_java_command                               *)
(***************************************************************************)
\* memory is a u32; the values here stay within the integers TLC can hold.
MemorySet == {None, Some(0), Some(512), Some(4096), Some(2147483647)}

OptionSet == [java_path : {<<"java">>, <<"C", ":", "\\", "jdk", "\\", "bin", "\\",
                                         "javaw", ".", "exe">>},
              memory : MemorySet,
              use_system_memory : BOOLEAN]

InitCmd ==
    /\ pc = "command"
    /\ target_arch = "x86_64"
    /\ root = RootDir
    /\ version_name \in {VersionId, <<"demo">>}
    /\ options \in OptionSet
    /\ version_json = Manifest(VersionId, <<>>, None, None, None)
    /\ libraries \in {Some(Ok(VersionJarFile)),
                      Some(Ok(VersionJarFile \o <<";">> \o FooJarFile))}
    /\ game_args \in {Some(<<>>),
                      Some(<<"-", "-", "username", " ", "Player", "1", "2", "3">>)}
    /\ files = {}
    /\ lib = None /\ applied = None /\ rules_result = None
    /\ mc_path = None /\ manifest_file = None /\ spawn_ok = None
    /\ child = None /\ error = None /\ steps = None
    /\ player_name = None
    /\ lib_path = None /\ args = None /\ java_command = None

BuildJavaCommand ==
    /\ pc = "command"
    /\ java_command' = Some(build_java_command(root, version_name,
                                               version_json.main_class,
                                               libraries[1].value, game_args[1],
                                               options))
    /\ pc' = "command_returned"
    /\ UNCHANGED <<lib, lib_path, libraries, args, game_args,
                   ruleVars, launchVars, inputVars>>

NextCmd == BuildJavaCommand

SpecCmd == InitCmd /\ [][NextCmd]_vars

\* C6: the memory flags are in the command only when use_system_memory is false
\* and a memory value N is set, and then they are -Xmx<N>M -Xms<N>M with the
\* same N; with use_system_memory true (memory set or not) or without a memory
\* value the command has no -Xmx and no -Xms.  (The other inputs carry neither.)
C6_MemoryFlags ==
    pc = "command_returned" =>
        LET cmd == java_command[1]
            xmx == Occurrences(cmd, <<"-", "Xmx">>)
            xms == Occurrences(cmd, <<"-", "Xms">>)
        IN  IF ~options.use_system_memory /\ options.memory # None
            THEN LET n == Display(options.memory[1])
                 IN  /\ Cardinality(xmx) = 1 /\ Cardinality(xms) = 1
                     /\ Contains(cmd, <<" ", "-", "Xmx">> \o n \o <<"M", " ", "-", "Xms">>
                                      \o n \o <<"M", " ">>)
            ELSE xmx = {} /\ xms = {}

C6_Witness ==
    /\ pc = "command_returned"
    /\ options.use_system_memory
    /\ options.memory = Some(4096)
    /\ ~Contains(java_command[1], <<"Xmx">>)
    /\ ~Contains(java_command[1], <<"Xms">>)

(***************************************************************************)
(* Specification Spec: launch_minecraft, one action per step.  steps is a  *)
(* history of the steps taken: "load" (read_version_json), "classpath"     *)
(* (build_libraries_path), "arguments" (build_game_arguments), "command"   *)
(* (build_java_command), "spawn" (Command::spawn).                         *)
(***************************************************************************)
ManifestFiles ==
    { [state |-> "missing"], [state |-> "denied"], [state |-> "malformed"],
      [state |-> "valid",
       json  |-> Manifest(VersionId,
                          <<[name |-> FooName, rules |-> None, natives |-> None]>>,
                          Some(LegacyUsername), None, None)],
      [state |-> "valid",
       json  |-> Manifest(<<"demo">>, <<>>, None,
                          Some([game |-> <<[kind |-> "String",
                                            s |-> Token("version_name")]>>]),
                          Some(<<"5">>))] }

Init ==
    /\ pc = "start"
    /\ target_arch \in Targets
    /\ mc_path \in {<<".", "minecraft">>, <<"C", ":", "/", "mc">>}
    /\ version_name \in {VersionId, <<"demo">>}
    /\ player_name = <<"Player", "1", "2", "3">>
    /\ options \in [java_path : {<<"java">>}, memory : {None, Some(4096)},
                    use_system_memory : BOOLEAN]
    /\ manifest_file \in ManifestFiles
    /\ files \in {{}, {FooJarFile}}
    /\ spawn_ok \in BOOLEAN
    /\ root = None /\ version_json = None
    /\ lib = None /\ applied = None /\ rules_result = None
    /\ lib_path = None /\ libraries = None /\ args = None
    /\ game_args = None /\ java_command = None
    /\ child = None /\ error = None
    /\ steps = <<>>

launchInputs == <<target_arch, mc_path, version_name, player_name, options,
                  manifest_file, files, spawn_ok>>
launchFrame == <<lib, applied, rules_result, lib_path, args>>

NormalizePath ==
    /\ pc = "start"
    /\ root' = normalize_path(mc_path)
    /\ pc' = "read"
    /\ UNCHANGED <<version_json, libraries, game_args, java_command, child, error,
                   steps, launchInputs, launchFrame>>

ReadVersionJson ==
    /\ pc = "read"
    /\ LET r == read_version_json(version_json_path(root, version_name), manifest_file)
       IN  IF r.ok
           THEN version_json' = r.value /\ error' = error /\ pc' = "libraries"
           ELSE version_json' = version_json /\ error' = Some(r) /\ pc' = "failed"
    /\ steps' = Append(steps, "load")
    /\ UNCHANGED <<root, libraries, game_args, java_command, child,
                   launchInputs, launchFrame>>

LaunchBuildLibraries ==
    /\ pc = "libraries"
    /\ LET r == build_libraries_path(root, version_json)
       IN  IF r.ok
           THEN libraries' = Some(r) /\ error' = error /\ pc' = "arguments"
           ELSE libraries' = libraries /\ error' = Some(r) /\ pc' = "failed"
    /\ steps' = Append(steps, "classpath")
    /\ UNCHANGED <<root, version_json, game_args, java_command, child,
                   launchInputs, launchFrame>>

LaunchBuildArguments ==
    /\ pc = "arguments"
    /\ game_args' = Some(build_game_arguments(root, version_name, player_name,
                                              version_json))
    /\ steps' = Append(steps, "arguments")
    /\ pc' = "command"
    /\ UNCHANGED <<root, version_json, libraries, java_command, child, error,
                   launchInputs, launchFrame>>

LaunchBuildCommand ==
    /\ pc = "command"
    /\ java_command' = Some(build_java_command(root, version_name,
                                               version_json.main_class,
                                               libraries[1].value, game_args[1],
                                               options))
    /\ steps' = Append(steps, "command")
    /\ pc' = "spawn"
    /\ UNCHANGED <<root, version_json, libraries, game_args, child, error,
                   launchInputs, launchFrame>>

Spawn ==
    /\ pc = "spawn"
    /\ IF spawn_ok
       THEN /\ child' = Some([program |-> "cmd", args |-> <<(<<"/", "K">>), java_command[1]>>])
            /\ error' = error
            /\ pc' = "done"
       ELSE /\ child' = child
            /\ error' = Some(Err("Spawn", <<"spawn_error">>))
            /\ pc' = "failed"
    /\ steps' = Append(steps, "spawn")
    /\ UNCHANGED <<root, version_json, libraries, game_args, java_command,
                   launchInputs, launchFrame>>

Next ==
    \/ NormalizePath
    \/ ReadVersionJson
    \/ LaunchBuildLibraries
    \/ LaunchBuildArguments
    \/ LaunchBuildCommand
    \/ Spawn

Spec == Init /\ [][Next]_vars

IsPrefix(a, b) == Len(a) <= Len(b) /\ SubSeq(b, 1, Len(a)) = a

ManifestPath ==
    normalize_path(mc_path) \o <<"\\", "versions", "\\">> \o version_name \o <<"\\">>
    \o version_name \o <<".", "json">>

\* C7: the steps of a launch are taken in the order load, classpath, arguments,
\* command, spawn, each at most once; when the manifest cannot be read or cannot
\* be decoded the launch ends with that error (NotFound, InvalidData), whose
\* message includes the manifest's path, after the one load and without a spawn,
\* and nothing further happens in that run.
C7_LaunchOrder ==
    /\ IsPrefix(steps, <<"load", "classpath", "arguments", "command", "spawn">>)
    /\ (pc \notin {"start", "read"} /\ manifest_file.state # "valid") =>
          /\ pc = "failed"
          /\ error # None
          /\ error[1].kind = (IF manifest_file.state = "malformed"
                              THEN "InvalidData" ELSE "NotFound")
          /\ Contains(error[1].message, ManifestPath)
          /\ steps = <<"load">>
          /\ child = None
    /\ pc \in {"failed", "done"} => ~ENABLED Next
    /\ child # None => (pc = "done" /\ error = None /\ Len(steps) = 5)

C7_Witness ==
    /\ pc = "failed"
    /\ manifest_file.state = "malformed"
    /\ mc_path = <<"C", ":", "/", "mc">>
    /\ Contains(error[1].message,
                <<"C", ":", "\\", "mc", "\\", "versions", "\\", "demo", "\\",
                  "demo", ".", "json">>)
    /\ spawn_ok

====
